---- MODULE Spec2Model ----
(***************************************************************************)
(* A model of the order-book history engine: the Halfbook container, the   *)
(* FPCache checkpoint cache, the OrderbookProcessor compressor and the     *)
(* OrderbookTraverser replayer.  Every subsystem has its own               *)
(* specification over the one set of variables; the variables of the other *)
(* subsystems stay at their initial value.                                 *)
(***************************************************************************)
EXTENDS Integers, Sequences, FiniteSets, TLC

VARIABLES
    hb_is_bid,      \* Halfbook.is_bid
    halfbook,       \* Halfbook.halfbook : list of (Decimal price, str size)
    hb_call,        \* the last call made on the halfbook
    cache,          \* FPCache.cache : SortedDict key -> stored reference
    heap,           \* the caller's objects: reference -> contents
    fp_call,        \* the last call made on the cache
    transcript,     \* the lines of the compressed transcript file
    current_state,  \* OrderbookTraverser.current_state
    current_position,   \* OrderbookTraverser.current_position
    current_timestamp,  \* OrderbookTraverser.current_timestamp
    obs_cache,      \* OrderbookTraverser.obs_cache : key -> <<state, position>>
    last_cached_ts, \* OrderbookTraverser.last_cached_ts
    tv_call,        \* the last call made on the traverser
    bids,           \* OrderbookProcessor.bids : the halfbook's list
    asks,           \* OrderbookProcessor.asks : the halfbook's list
    first_message,  \* OrderbookProcessor.first_message
    emitted,        \* what the last process_message returned
    cp_call,        \* the last message given to process_message, and whether it raised
    n_messages,     \* number of messages given so far
    replayed,       \* the state a reader of the emitted records has rebuilt
    dl_call,        \* a call of _calculate_deltas: its arguments and what it returned
    pf_line_nr,     \* process_orderbook_file: line_nr of the next line of the input file
    out_strings,    \* process_orderbook_file: out_strings
    f_out,          \* the text written to the output file, a list of tokens
    pf_pc,          \* process_orderbook_file: in the loop, or returned
    pf_results,     \* the non-empty results process_message has returned, in input order
    ap_read,        \* the lines the producer has read from the input file
    prod_pc,        \* producer: reading, or done
    prod_i,         \* producer: i
    lines,          \* producer: lines
    queue,          \* asyncio.Queue: the items put and not yet got
    unfinished_tasks, \* asyncio.Queue: items put and not yet marked done
    cons_pc,        \* consumer: where it is suspended, or how it ended
    results,        \* consumer: results
    ap_out,         \* the text the consumer has written to its output file
    processed,      \* the lines the consumer has passed to process_fn
    main_pc         \* main: awaiting the producer, awaiting queue.join(), or done

hbVars == <<hb_is_bid, halfbook, hb_call>>
fpVars == <<cache, heap, fp_call>>
tvVars == <<transcript, current_state, current_position, current_timestamp, obs_cache,
            last_cached_ts, tv_call>>
cpVars == <<bids, asks, first_message, emitted, cp_call, n_messages, replayed>>
dlVars == <<dl_call>>
pfVars == <<pf_line_nr, out_strings, f_out, pf_pc, pf_results>>
apVars == <<ap_read, prod_pc, prod_i, lines, queue, unfinished_tasks, cons_pc, results, ap_out, processed, main_pc>>
vars == <<hbVars, fpVars, tvVars, cpVars, dlVars, pfVars, apVars>>

----------------------------------------------------------------------------
(* Bounds of the model.                                                    *)

\* longest batch given to Halfbook.set
MaxBatch == 2
\* greatest key given to FPCache.add / FPCache.get
MaxKey == 2
\* number of delta records of a transcript
NumDeltas == 3
\* number of messages given to a compressor
MaxMessages == 2
\* number of bid levels of a first message, of levels a side of a later one
MaxSnapshotLevels == 3
MaxDeltaLevels == 1
\* max_output_depth of the compressor
MaxOutputDepth == 2
\* CHUNK_LINE_CNT of the model: the lines of a chunk (10000 in
\* compress_orderbook.py), and the longest input file in chunks
CHUNK_LINE_CNT == 2
MaxChunks == 2

----------------------------------------------------------------------------
(* The locals of process_orderbook_file when its loop starts.              *)

PfInit ==
    /\ pf_line_nr = 0
    /\ out_strings = <<>>
    /\ f_out = <<>>
    /\ pf_pc = "loop"
    /\ pf_results = <<>>

----------------------------------------------------------------------------
(* main of compress_orderbook.py after it has created the queue and the    *)
(* two tasks.                                                              *)

PipelineInit ==
    /\ ap_read = <<>>
    /\ prod_pc = "reading"
    /\ prod_i = 0
    /\ lines = <<>>
    /\ queue = <<>>
    /\ unfinished_tasks = 0
    /\ cons_pc = "get"
    /\ results = <<>>
    /\ ap_out = <<>>
    /\ processed = <<>>
    /\ main_pc = "await prod"

----------------------------------------------------------------------------
(* Prices and sizes.  Both travel as strings.  decimal.Decimal(text) keeps *)
(* the text's digits and exponent (str() gives them back) but compares and *)
(* hashes by numeric value, so "1" and "1.0" are equal Decimals that print *)
(* differently.                                                            *)

PriceStrs == {"1", "1.0", "2", "3"}
SizeStrs == {"0", "5", "7"}

PriceNum(s) ==
    CASE s = "1" -> 1
      [] s = "1.0" -> 1
      [] s = "2" -> 2
      [] s = "3" -> 3
      [] s = "4" -> 4
      [] s = "5" -> 5

SizeNum(s) ==
    CASE s = "0" -> 0
      [] s = "5" -> 5
      [] s = "7" -> 7

\* Decimal(text)
Decimal(s) == [num |-> PriceNum(s), txt |-> s]
\* str(Decimal)
DecStr(d) == d.txt
\* Decimal == Decimal
DecEq(d, e) == d.num = e.num
\* bool(Decimal(qty)) : a size is truthy when it does not parse to zero
QtyTruthy(q) == SizeNum(q) # 0

Min(a, b) == IF a < b THEN a ELSE b
Max(a, b) == IF a > b THEN a ELSE b

\* list[:n]
Take(s, n) == SubSeq(s, 1, Min(n, Len(s)))
\* the list s with x inserted before 0-based index i (list.insert(i, x))
InsertAt(s, i, x) == SubSeq(s, 1, i) \o <<x>> \o SubSeq(s, i + 1, Len(s))
\* del s[i], i 0-based
DeleteAt(s, i) == SubSeq(s, 1, i) \o SubSeq(s, i + 2, Len(s))
\* s[i] = x, i 0-based
ReplaceAt(s, i, x) == [s EXCEPT ![i + 1] = x]

Batches(entries, n) == UNION {[1..k -> entries] : k \in 0..n}

----------------------------------------------------------------------------
(* Halfbook (halfbook.py).  An entry is <<Decimal, size string>>.          *)

\* Halfbook._sort_key
SortKey(is_bid, e) == IF is_bid THEN 0 - e[1].num ELSE e[1].num

\* bisect.bisect_left(a, x, key=...) : the binary search, 0-based lo and hi
RECURSIVE BisectLeftLoop(_, _, _, _, _)
BisectLeftLoop(a, x, is_bid, lo, hi) ==
    IF lo < hi
    THEN LET mid == (lo + hi) \div 2
         IN IF SortKey(is_bid, a[mid + 1]) < x
            THEN BisectLeftLoop(a, x, is_bid, mid + 1, hi)
            ELSE BisectLeftLoop(a, x, is_bid, lo, mid)
    ELSE lo

BisectLeft(a, x, is_bid) == BisectLeftLoop(a, x, is_bid, 0, Len(a))

\* bisect.bisect_right(a, x, key=...)
RECURSIVE BisectRightLoop(_, _, _, _, _)
BisectRightLoop(a, x, is_bid, lo, hi) ==
    IF lo < hi
    THEN LET mid == (lo + hi) \div 2
         IN IF x < SortKey(is_bid, a[mid + 1])
            THEN BisectRightLoop(a, x, is_bid, lo, mid)
            ELSE BisectRightLoop(a, x, is_bid, mid + 1, hi)
    ELSE lo

\* bisect.insort(a, e, key=...) : insert e after the entries whose key is <= its key
Insort(a, e, is_bid) ==
    InsertAt(a, BisectRightLoop(a, SortKey(is_bid, e), is_bid, 0, Len(a)), e)

\* sorted(list, key=...) : a stable sort, the entries taken in list order
RECURSIVE SortedByKey(_, _)
SortedByKey(list, is_bid) ==
    IF list = <<>>
    THEN <<>>
    ELSE Insort(SortedByKey(SubSeq(list, 1, Len(list) - 1), is_bid),
                list[Len(list)], is_bid)

\* Halfbook.set : the batch holds [price string, size string] pairs
HalfbookSet(batch, is_bid) ==
    SortedByKey([i \in 1..Len(batch) |-> <<Decimal(batch[i][1]), batch[i][2]>>], is_bid)

\* Halfbook._get_idx
GetIdx(hb, is_bid, price) ==
    BisectLeft(hb, IF is_bid THEN 0 - price.num ELSE price.num, is_bid)

\* Halfbook.get_qty_decimal : "" when the price is absent
GetQtyDecimal(hb, is_bid, price) ==
    LET index == GetIdx(hb, is_bid, price)
    IN IF index < Len(hb) /\ DecEq(hb[index + 1][1], price)
       THEN hb[index + 1][2]
       ELSE ""

\* Halfbook.top_n and Halfbook.__getitem__ with the slice [:n]
TopN(hb, n) == Take(hb, n)

\* Halfbook.copy : a new list holding the same (immutable) tuples
HalfbookCopy(hb) == hb

\* Halfbook.update with the deletion left out: a present price given a zero
\* size keeps its entry
HalfbookUpdateNoDelete(hb, is_bid, price, qty) ==
    LET price_decimal == Decimal(price)
        index == GetIdx(hb, is_bid, price_decimal)
    IN IF index < Len(hb) /\ DecEq(hb[index + 1][1], price_decimal)
       THEN IF QtyTruthy(qty)
            THEN ReplaceAt(hb, index, <<price_decimal, qty>>)
            ELSE hb
       ELSE IF QtyTruthy(qty)
            THEN Insort(hb, <<price_decimal, qty>>, is_bid)
            ELSE hb

\* Halfbook.update
HalfbookUpdate(hb, is_bid, price, qty) ==
    LET price_decimal == Decimal(price)
        index == GetIdx(hb, is_bid, price_decimal)
    IN IF index < Len(hb) /\ DecEq(hb[index + 1][1], price_decimal)
       THEN IF QtyTruthy(qty)
            THEN ReplaceAt(hb, index, <<price_decimal, qty>>)
            ELSE DeleteAt(hb, index)
       ELSE IF QtyTruthy(qty)
            THEN Insort(hb, <<price_decimal, qty>>, is_bid)
            ELSE hb

----------------------------------------------------------------------------
(* FPCache (orderbook_traverser.py).  The SortedDict is a function from    *)
(* its keys to the stored values; None is <<>> and a value v is <<v>>.     *)

None == <<>>
Some(v) == <<v>>

\* the keys of the SortedDict in ascending order
RECURSIVE SortedKeys(_)
SortedKeys(keys) ==
    IF keys = {}
    THEN <<>>
    ELSE LET m == CHOOSE x \in keys : \A y \in keys : y <= x
         IN Append(SortedKeys(keys \ {m}), m)

\* SortedDict.bisect_left(key) : the index of the first key >= key
SDBisectLeft(c, key) == Cardinality({k \in DOMAIN c : k < key})

\* SortedDict.peekitem(index)[1], index 0-based
PeekValue(c, index) == c[SortedKeys(DOMAIN c)[index + 1]]

\* FPCache.add with an overwrite instead of the early return
FPCacheAddOverwrite(c, key, value) ==
    [k \in DOMAIN c \cup {key} |-> IF k = key THEN value ELSE c[k]]

\* FPCache.add : the value itself is stored, not a copy of it
FPCacheAdd(c, key, value) ==
    IF key \in DOMAIN c
    THEN c
    ELSE [k \in DOMAIN c \cup {key} |-> IF k = key THEN value ELSE c[k]]

\* FPCache.get
FPCacheGet(c, key) ==
    LET idx == SDBisectLeft(c, key)
        len == Cardinality(DOMAIN c)
    IN IF idx < len
       THEN Some(PeekValue(c, idx))
       ELSE IF len > 0
            THEN Some(PeekValue(c, idx - 1))
            ELSE None

----------------------------------------------------------------------------
(* OrderbookTraverser (orderbook_traverser.py).  The transcript file is    *)
(* the sequence of its lines; a file offset is the number of lines before  *)
(* it, so the offset of line 2 is 1 and end of file is Len(file).  An      *)
(* OrderbookState is [bids, asks, timestamp, sequence], its sides lists of *)
(* <<price string, size string>>.                                          *)

\* the order of str < str on the price texts (lexicographic)
StrRank(s) ==
    CASE s = "1" -> 1
      [] s = "1.0" -> 2
      [] s = "2" -> 3
      [] s = "3" -> 4
      [] s = "4" -> 5
      [] s = "5" -> 6

\* {price: size for price, size in side} : a later pair of a price replaces
\* an earlier one
DictOfList(side) ==
    [p \in {side[i][1] : i \in 1..Len(side)} |->
        side[CHOOSE i \in 1..Len(side) :
                /\ side[i][1] = p
                /\ \A j \in 1..Len(side) : side[j][1] = p => j <= i][2]]

\* the loop over a side of the delta: pop on a zero size, else assign
RECURSIVE ApplyEntries(_, _)
ApplyEntries(d, entries) ==
    IF entries = <<>>
    THEN d
    ELSE LET price == entries[1][1]
             size == entries[1][2]
             d2 == IF SizeNum(size) = 0
                   THEN [p \in DOMAIN d \ {price} |-> d[p]]
                   ELSE [p \in DOMAIN d \cup {price} |-> IF p = price THEN size ELSE d[p]]
         IN ApplyEntries(d2, Tail(entries))

\* (Decimal(price), price, size) < (Decimal(price), price, size)
TupleLess(p, q) ==
    \/ PriceNum(p) < PriceNum(q)
    \/ PriceNum(p) = PriceNum(q) /\ StrRank(p) < StrRank(q)

\* sorted(...) of the dict's items, ascending
RECURSIVE SortedItems(_, _)
SortedItems(d, keys) ==
    IF keys = {}
    THEN <<>>
    ELSE LET m == CHOOSE x \in keys : \A y \in keys : y = x \/ TupleLess(x, y)
         IN <<<<m, d[m]>>>> \o SortedItems(d, keys \ {m})

Reverse(list) == [i \in 1..Len(list) |-> list[Len(list) + 1 - i]]

\* one side of _process_update
ProcessSide(side, entries, descending) ==
    LET d == ApplyEntries(DictOfList(side), entries)
        ascending == SortedItems(d, DOMAIN d)
    IN IF descending THEN Reverse(ascending) ELSE ascending

\* _process_update that keeps the timestamp and the sequence number of the
\* state it is given
ProcessUpdateUnstamped(state, data) ==
    [bids |-> IF "b" \in DOMAIN data
              THEN ProcessSide(state.bids, data.b, TRUE)
              ELSE state.bids,
     asks |-> IF "a" \in DOMAIN data
              THEN ProcessSide(state.asks, data.a, FALSE)
              ELSE state.asks,
     timestamp |-> state.timestamp,
     sequence |-> state.sequence]

\* OrderbookTraverser._process_update
ProcessUpdate(state, data) ==
    [bids |-> IF "b" \in DOMAIN data
              THEN ProcessSide(state.bids, data.b, TRUE)
              ELSE state.bids,
     asks |-> IF "a" \in DOMAIN data
              THEN ProcessSide(state.asks, data.a, FALSE)
              ELSE state.asks,
     timestamp |-> data.t,
     sequence |-> data.s]

\* OrderbookTraverser.get_best_bid / get_best_ask : None on an empty side
GetBestBid(state) == IF state.bids # <<>> THEN Some(Decimal(state.bids[1][1])) ELSE None
GetBestAsk(state) == IF state.asks # <<>> THEN Some(Decimal(state.asks[1][1])) ELSE None

\* OrderbookTraverser._add_to_cache ; tr is the traverser object
AddToCache(tr) ==
    [tr EXCEPT
        !.obs_cache = FPCacheAdd(tr.obs_cache, tr.current_state.timestamp,
                                 <<tr.current_state, tr.current_position>>),
        !.last_cached_ts = tr.current_state.timestamp]

\* OrderbookTraverser._add_to_cache_if_needed
AddToCacheIfNeeded(tr) ==
    IF tr.current_state.timestamp - tr.last_cached_ts > tr.cache_frequency_seconds * 1000
    THEN AddToCache(tr)
    ELSE tr

\* OrderbookTraverser._load_initial_snapshot
LoadInitialSnapshot(tr, file) ==
    LET data == file[1]
        state == [bids |-> data.b, asks |-> data.a, timestamp |-> data.t,
                  sequence |-> data.s]
    IN AddToCache([tr EXCEPT !.current_state = state,
                             !.current_timestamp = state.timestamp,
                             !.current_position = 1])

\* the termination hooks: [terminate, ctx, raised]
\* skip's lambda
SkipHook(ctx, data) ==
    [terminate |-> data.t > ctx.target_time, ctx |-> ctx, raised |-> FALSE]

\* terminate_on_different_ts that stops at every second record, whatever
\* its timestamp
StepHookOneRecord(ctx, data) ==
    IF ~ctx.has_current_ts
    THEN [terminate |-> FALSE,
          ctx |-> [ctx EXCEPT !.has_current_ts = TRUE, !.current_ts = data.t],
          raised |-> FALSE]
    ELSE [terminate |-> TRUE, ctx |-> ctx, raised |-> FALSE]

\* step's terminate_on_different_ts
StepHook(ctx, data) ==
    IF ~ctx.has_current_ts
    THEN [terminate |-> FALSE,
          ctx |-> [ctx EXCEPT !.has_current_ts = TRUE, !.current_ts = data.t],
          raised |-> FALSE]
    ELSE [terminate |-> data.t > ctx.current_ts, ctx |-> ctx, raised |-> FALSE]

\* move's record_extremes_until_target : min() and max() raise TypeError
\* when one of their arguments is None
MoveHook(ctx, state, data) ==
    LET ask == GetBestAsk(state)
        bid == GetBestBid(state)
    IN IF ask = None \/ bid = None \/ ctx.lowest_ask = None \/ ctx.highest_bid = None
       THEN [terminate |-> FALSE, ctx |-> ctx, raised |-> TRUE]
       ELSE [terminate |-> data.t > ctx.target_time,
             ctx |-> [ctx EXCEPT
                        !.lowest_ask = IF ask[1].num < ctx.lowest_ask[1].num
                                       THEN ask ELSE ctx.lowest_ask,
                        !.highest_bid = IF bid[1].num > ctx.highest_bid[1].num
                                        THEN bid ELSE ctx.highest_bid],
             raised |-> FALSE]

Hook(ctx, state, data) ==
    CASE ctx.hook = "skip" -> SkipHook(ctx, data)
      [] ctx.hook = "step" -> StepHook(ctx, data)
      [] ctx.hook = "move" -> MoveHook(ctx, state, data)

NoCtx == [hook |-> "", target_time |-> 0, has_current_ts |-> FALSE, current_ts |-> 0,
          lowest_ask |-> None, highest_bid |-> None]

\* _read_from_current that advances current_position past the record on
\* which the hook returned true
RECURSIVE ReadFromCurrentPastTerminator(_, _, _)
ReadFromCurrentPastTerminator(tr, file, ctx) ==
    IF tr.current_position >= Len(file)
    THEN [tr |-> tr, ctx |-> ctx, raised |-> FALSE]
    ELSE LET data == file[tr.current_position + 1]
             h == Hook(ctx, tr.current_state, data)
         IN IF h.raised
            THEN [tr |-> tr, ctx |-> h.ctx, raised |-> TRUE]
            ELSE IF h.terminate
                 THEN [tr |-> [tr EXCEPT !.current_position = tr.current_position + 1],
                       ctx |-> h.ctx, raised |-> FALSE]
                 ELSE ReadFromCurrentPastTerminator(
                          AddToCacheIfNeeded(
                              [tr EXCEPT
                                 !.current_state = ProcessUpdate(tr.current_state, data),
                                 !.current_position = tr.current_position + 1]),
                          file, h.ctx)

\* OrderbookTraverser._read_from_current : [tr, ctx, raised]
RECURSIVE ReadFromCurrent(_, _, _)
ReadFromCurrent(tr, file, ctx) ==
    IF tr.current_position >= Len(file)
    THEN [tr |-> tr, ctx |-> ctx, raised |-> FALSE]
    ELSE LET data == file[tr.current_position + 1]
             h == Hook(ctx, tr.current_state, data)
         IN IF h.raised
            THEN [tr |-> tr, ctx |-> h.ctx, raised |-> TRUE]
            ELSE IF h.terminate
                 THEN [tr |-> tr, ctx |-> h.ctx, raised |-> FALSE]
                 ELSE ReadFromCurrent(
                          AddToCacheIfNeeded(
                              [tr EXCEPT
                                 !.current_state = ProcessUpdate(tr.current_state, data),
                                 !.current_position = tr.current_position + 1]),
                          file, h.ctx)

\* OrderbookTraverser.skip, given seconds * 1000 as an integer
Skip(tr, file, ms) ==
    LET target_time == tr.current_timestamp + ms
        res == FPCacheGet(tr.obs_cache, target_time)
        restored == IF res # None
                    THEN [tr EXCEPT !.current_state = res[1][1],
                                    !.current_position = res[1][2]]
                    ELSE tr
    IN IF res # None /\ restored.current_state.timestamp = target_time
       THEN restored
       ELSE LET r == ReadFromCurrent(restored, file,
                         [NoCtx EXCEPT !.hook = "skip", !.target_time = target_time])
            IN [r.tr EXCEPT !.current_timestamp = target_time]

\* OrderbookTraverser.at : the seconds given to skip, times 1000
AtMs(tr, timestamp) == ((timestamp - tr.current_state.timestamp) \div 1000) * 1000

\* OrderbookTraverser.step
Step(tr, file) ==
    LET r == ReadFromCurrent(tr, file, [NoCtx EXCEPT !.hook = "step"])
    IN [r.tr EXCEPT !.current_timestamp = r.tr.current_state.timestamp]

\* PriceRange, when move raised
NoRange == [lowest_ask |-> None, highest_bid |-> None, start_time |-> 0, end_time |-> 0]

\* move without its assertion on seconds
MoveNoAssert(tr, file, ms) ==
    LET nothing == NoRange
    IN IF FALSE
       THEN [tr |-> tr, raised |-> TRUE, range |-> nothing]
       ELSE LET start_time == tr.current_timestamp
                hook_ctx == [NoCtx EXCEPT
                               !.hook = "move",
                               !.lowest_ask = GetBestAsk(tr.current_state),
                               !.highest_bid = GetBestBid(tr.current_state),
                               !.target_time = tr.current_state.timestamp + ms]
                r == ReadFromCurrent(tr, file, hook_ctx)
            IN IF r.raised
               THEN [tr |-> r.tr, raised |-> TRUE, range |-> nothing]
               ELSE [tr |-> [r.tr EXCEPT !.current_timestamp = r.ctx.target_time],
                     raised |-> FALSE,
                     range |-> [lowest_ask |-> r.ctx.lowest_ask,
                                highest_bid |-> r.ctx.highest_bid,
                                start_time |-> start_time,
                                end_time |-> r.ctx.target_time]]

\* OrderbookTraverser.move, given seconds * 1000 as an integer:
\* [tr, raised, range]
Move(tr, file, ms) ==
    LET nothing == NoRange
    IN IF ~(ms > 0)
       THEN [tr |-> tr, raised |-> TRUE, range |-> nothing]
       ELSE LET start_time == tr.current_timestamp
                hook_ctx == [NoCtx EXCEPT
                               !.hook = "move",
                               !.lowest_ask = GetBestAsk(tr.current_state),
                               !.highest_bid = GetBestBid(tr.current_state),
                               !.target_time = tr.current_state.timestamp + ms]
                r == ReadFromCurrent(tr, file, hook_ctx)
            IN IF r.raised
               THEN [tr |-> r.tr, raised |-> TRUE, range |-> nothing]
               ELSE [tr |-> [r.tr EXCEPT !.current_timestamp = r.ctx.target_time],
                     raised |-> FALSE,
                     range |-> [lowest_ask |-> r.ctx.lowest_ask,
                                highest_bid |-> r.ctx.highest_bid,
                                start_time |-> start_time,
                                end_time |-> r.ctx.target_time]]

\* reset that starts from an empty checkpoint cache
ResetClearsCache(tr, file) == LoadInitialSnapshot([tr EXCEPT !.obs_cache = <<>>], file)

\* OrderbookTraverser.reset
Reset(tr, file) == LoadInitialSnapshot(tr, file)

----------------------------------------------------------------------------
(* OrderbookProcessor (orderbook_processor.py).  A message is              *)
(* [type, ts, data] and data a mapping with the keys seq, b, a (b or a may *)
(* be missing).  A compressed record is a mapping with the keys t, s and,  *)
(* when present, b and a; the empty mapping <<>> is "no record".           *)

\* the numeric values of the prices of a list of levels (a set of Decimals)
Levels(hb) == {hb[i][1].num : i \in 1..Len(hb)}

\* the [str(price), "0"] entries for the levels of old that new does not
\* hold; a set of Decimals keeps the first of equal elements, and the
\* entries are listed in the order of old
RECURSIVE RemovedEntries(_, _, _)
RemovedEntries(old, new_levels, seen) ==
    IF old = <<>>
    THEN <<>>
    ELSE LET price == old[1][1]
         IN IF price.num \in new_levels \/ price.num \in seen
            THEN RemovedEntries(Tail(old), new_levels, seen)
            ELSE <<<<DecStr(price), "0">>>>
                 \o RemovedEntries(Tail(old), new_levels, seen \cup {price.num})

\* the loop of _calculate_deltas over new_halfbook
RECURSIVE ChangedEntries(_, _, _, _)
ChangedEntries(new, old, old_levels, is_bid) ==
    IF new = <<>>
    THEN <<>>
    ELSE LET price == new[1][1]
             qty == new[1][2]
             old_qty == GetQtyDecimal(old, is_bid, price)
             rest == ChangedEntries(Tail(new), old, old_levels, is_bid)
         IN IF price.num \notin old_levels
            THEN <<<<DecStr(price), qty>>>> \o rest
            ELSE IF old_qty = "" \/ old_qty # qty
                 THEN <<<<DecStr(price), qty>>>> \o rest
                 ELSE rest

\* _calculate_deltas without the removals of the old levels
CalculateDeltasNoRemovals(new_halfbook, old_halfbook, is_bid) ==
    ChangedEntries(new_halfbook, old_halfbook, Levels(old_halfbook), is_bid)

\* _calculate_deltas
CalculateDeltas(new_halfbook, old_halfbook, is_bid) ==
    ChangedEntries(new_halfbook, old_halfbook, Levels(old_halfbook), is_bid)
        \o RemovedEntries(old_halfbook, Levels(new_halfbook), {})

\* _update_halfbook
RECURSIVE UpdateHalfbook(_, _, _)
UpdateHalfbook(hb, is_bid, updates) ==
    IF updates = <<>>
    THEN hb
    ELSE UpdateHalfbook(HalfbookUpdate(hb, is_bid, updates[1][1], updates[1][2]),
                        is_bid, Tail(updates))

\* [[str(price), size] for price, size in top]
StrLevels(top) == [i \in 1..Len(top) |-> <<DecStr(top[i][1]), top[i][2]>>]

\* the strings Decimal(text) parses; on any other it raises InvalidOperation
NumberStrs == {"0", "1", "1.0", "2", "3", "4", "5", "7"}
DecimalRaises(s) == s \notin NumberStrs

\* _update_halfbook raises: Halfbook.update evaluates Decimal(price) and
\* Decimal(qty) of every update it is given, on the clone
UpdateHalfbookRaises(updates) ==
    \E i \in 1..Len(updates) :
        DecimalRaises(updates[i][1]) \/ DecimalRaises(updates[i][2])

\* the non-first branch of process_message; proc is the processor object;
\* [proc, compressed, raised]
ProcessDelta(proc, message) ==
    LET data == message.data
        n == proc.max_output_depth
    IN IF "b" \notin DOMAIN data
       THEN [proc |-> proc, compressed |-> <<>>, raised |-> TRUE]
       ELSE IF data.b # <<>> /\ UpdateHalfbookRaises(data.b)
       THEN [proc |-> proc, compressed |-> <<>>, raised |-> TRUE]
       ELSE
       LET new_bids == IF data.b # <<>>
                       THEN UpdateHalfbook(HalfbookCopy(proc.bids), TRUE, data.b)
                       ELSE proc.bids
           bid_deltas == IF data.b # <<>>
                         THEN CalculateDeltas(Take(new_bids, n), Take(proc.bids, n), TRUE)
                         ELSE <<>>
           proc1 == [proc EXCEPT !.bids = new_bids]
       IN IF "a" \notin DOMAIN data
          THEN [proc |-> proc1, compressed |-> <<>>, raised |-> TRUE]
          ELSE IF data.a # <<>> /\ UpdateHalfbookRaises(data.a)
          THEN [proc |-> proc1, compressed |-> <<>>, raised |-> TRUE]
          ELSE
          LET new_asks == IF data.a # <<>>
                          THEN UpdateHalfbook(HalfbookCopy(proc.asks), FALSE, data.a)
                          ELSE proc.asks
              ask_deltas == IF data.a # <<>>
                            THEN CalculateDeltas(Take(new_asks, n), Take(proc.asks, n), FALSE)
                            ELSE <<>>
              proc2 == [proc1 EXCEPT !.asks = new_asks]
              compressed ==
                  IF bid_deltas # <<>> \/ ask_deltas # <<>>
                  THEN [t |-> message.ts, s |-> data.seq]
                       @@ (IF bid_deltas # <<>> THEN [b |-> bid_deltas] ELSE <<>>)
                       @@ (IF ask_deltas # <<>> THEN [a |-> ask_deltas] ELSE <<>>)
                  ELSE <<>>
          IN [proc |-> proc2, compressed |-> compressed, raised |-> FALSE]

\* the first-message branch without the check of the message type
ProcessFirstAnyType(proc, message) ==
    LET data == message.data
        n == proc.max_output_depth
    IN IF "b" \notin DOMAIN data
       THEN [proc |-> proc, compressed |-> <<>>, raised |-> TRUE]
       ELSE
       LET proc1 == [proc EXCEPT !.bids = HalfbookSet(data.b, TRUE)]
       IN IF "a" \notin DOMAIN data
          THEN [proc |-> proc1, compressed |-> <<>>, raised |-> TRUE]
          ELSE
          LET proc2 == [proc1 EXCEPT !.asks = HalfbookSet(data.a, FALSE)]
          IN [proc |-> [proc2 EXCEPT !.first_message = FALSE],
              compressed |-> [t |-> message.ts,
                              b |-> StrLevels(Take(proc2.bids, n)),
                              a |-> StrLevels(Take(proc2.asks, n)),
                              s |-> data.seq],
              raised |-> FALSE]

\* the first-message branch that stores only the levels it emits
ProcessFirstTruncating(proc, message) ==
    LET data == message.data
        n == proc.max_output_depth
    IN IF message.type # "snapshot"
       THEN [proc |-> proc, compressed |-> <<>>, raised |-> TRUE]
       ELSE IF "b" \notin DOMAIN data
       THEN [proc |-> proc, compressed |-> <<>>, raised |-> TRUE]
       ELSE
       LET proc1 == [proc EXCEPT !.bids = Take(HalfbookSet(data.b, TRUE), n)]
       IN IF "a" \notin DOMAIN data
          THEN [proc |-> proc1, compressed |-> <<>>, raised |-> TRUE]
          ELSE
          LET proc2 == [proc1 EXCEPT !.asks = Take(HalfbookSet(data.a, FALSE), n)]
          IN [proc |-> [proc2 EXCEPT !.first_message = FALSE],
              compressed |-> [t |-> message.ts,
                              b |-> StrLevels(Take(proc2.bids, n)),
                              a |-> StrLevels(Take(proc2.asks, n)),
                              s |-> data.seq],
              raised |-> FALSE]

\* the first-message branch of process_message
ProcessFirst(proc, message) ==
    LET data == message.data
        n == proc.max_output_depth
    IN IF message.type # "snapshot"
       THEN [proc |-> proc, compressed |-> <<>>, raised |-> TRUE]
       ELSE IF "b" \notin DOMAIN data
       THEN [proc |-> proc, compressed |-> <<>>, raised |-> TRUE]
       ELSE
       LET proc1 == [proc EXCEPT !.bids = HalfbookSet(data.b, TRUE)]
       IN IF "a" \notin DOMAIN data
          THEN [proc |-> proc1, compressed |-> <<>>, raised |-> TRUE]
          ELSE
          LET proc2 == [proc1 EXCEPT !.asks = HalfbookSet(data.a, FALSE)]
          IN [proc |-> [proc2 EXCEPT !.first_message = FALSE],
              compressed |-> [t |-> message.ts,
                              b |-> StrLevels(Take(proc2.bids, n)),
                              a |-> StrLevels(Take(proc2.asks, n)),
                              s |-> data.seq],
              raised |-> FALSE]

\* OrderbookProcessor.process_message
ProcessMessage(proc, message) ==
    IF ~proc.first_message
    THEN ProcessDelta(proc, message)
    ELSE ProcessFirst(proc, message)

----------------------------------------------------------------------------
(* The halfbook driven by arbitrary calls.                                 *)

HBEntries == PriceStrs \X SizeStrs

HBNoCall == [op |-> "new", batch |-> <<>>, price |-> "", qty |-> ""]

\* Halfbook.__init__ : either polarity, empty
HalfbookInit ==
    /\ hb_is_bid \in BOOLEAN
    /\ halfbook = <<>>
    /\ hb_call = HBNoCall
    /\ cache = <<>>
    /\ heap = <<>>
    /\ fp_call = <<>>
    /\ transcript = <<>>
    /\ current_state = <<>>
    /\ current_position = 0
    /\ current_timestamp = 0
    /\ obs_cache = <<>>
    /\ last_cached_ts = 0
    /\ tv_call = <<>>
    /\ bids = <<>>
    /\ asks = <<>>
    /\ PfInit
    /\ PipelineInit
    /\ first_message = TRUE
    /\ emitted = <<>>
    /\ cp_call = <<>>
    /\ n_messages = 0
    /\ replayed = <<>>
    /\ dl_call = <<>>

HBSet ==
    \E batch \in Batches(HBEntries, MaxBatch) :
        /\ halfbook' = HalfbookSet(batch, hb_is_bid)
        /\ hb_call' = [op |-> "set", batch |-> batch, price |-> "", qty |-> ""]
        /\ UNCHANGED hb_is_bid

HBUpdate ==
    \E price \in PriceStrs, qty \in SizeStrs :
        /\ halfbook' = HalfbookUpdate(halfbook, hb_is_bid, price, qty)
        /\ hb_call' = [op |-> "update", batch |-> <<>>, price |-> price, qty |-> qty]
        /\ UNCHANGED hb_is_bid

HalfbookNext ==
    \/ HBSet /\ UNCHANGED <<fpVars, tvVars, cpVars, dlVars, pfVars, apVars>>
    \/ HBUpdate /\ UNCHANGED <<fpVars, tvVars, cpVars, dlVars, pfVars, apVars>>

HalfbookSpec == HalfbookInit /\ [][HalfbookNext]_vars

----------------------------------------------------------------------------
(* Properties of the halfbook.                                             *)

\* C9: after any sequence of set and update calls the prices of a bid
\* halfbook are strictly decreasing along the sequence and those of an ask
\* halfbook strictly increasing (so no two entries share a price).
C9_StrictlyOrdered ==
    \A i \in 1..(Len(halfbook) - 1) :
        IF hb_is_bid
        THEN halfbook[i][1].num > halfbook[i + 1][1].num
        ELSE halfbook[i][1].num < halfbook[i + 1][1].num

\* C10: after any sequence of set and update calls no entry of the halfbook
\* has a size that parses to zero.
C10_NoZeroSize ==
    \A i \in 1..Len(halfbook) : SizeNum(halfbook[i][2]) # 0

\* the entries of a halfbook in strict polarity order
StrictlyOrdered(hb, is_bid) ==
    \A i \in 1..(Len(hb) - 1) :
        IF is_bid
        THEN hb[i][1].num > hb[i + 1][1].num
        ELSE hb[i][1].num < hb[i + 1][1].num

\* the entries of a halfbook whose price is not p, in their order
OtherEntries(hb, p) ==
    LET NotP(e) == e[1].num # p
    IN SelectSeq(hb, NotP)

\* the sizes a halfbook holds at price p, in their order
SizesAt(hb, p) ==
    LET IsP(e) == e[1].num = p
        at == SelectSeq(hb, IsP)
    IN [i \in 1..Len(at) |-> at[i][2]]

\* C11: an update(price, size) on a strictly ordered halfbook is a map
\* update: afterwards the halfbook holds the size at the price (one entry,
\* at the position the polarity asks for) when the size is not zero and no
\* entry at the price when it is zero, and every other entry is unchanged
\* and in the same relative order.
C11_MapUpdate ==
    [][(hb_call'.op = "update" /\ StrictlyOrdered(halfbook, hb_is_bid))
        => LET p == PriceNum(hb_call'.price)
               q == hb_call'.qty
           IN /\ OtherEntries(halfbook', p) = OtherEntries(halfbook, p)
              /\ SizesAt(halfbook', p) = IF SizeNum(q) # 0 THEN <<q>> ELSE <<>>
              /\ StrictlyOrdered(halfbook', hb_is_bid)]_vars

\* an update has removed the middle one of three levels and left the two
\* others in order
C11_Witness ==
    /\ hb_call.op = "update"
    /\ SizeNum(hb_call.qty) = 0
    /\ Len(halfbook) = 2
    /\ StrictlyOrdered(halfbook, hb_is_bid)
    /\ {halfbook[1][1].num, halfbook[2][1].num} = {1, 3}
    /\ PriceNum(hb_call.price) = 2

----------------------------------------------------------------------------
(* The cache driven by a caller that owns mutable objects.  An object is a *)
(* list holding an atom and a nested list that holds an atom, as the       *)
(* objects of tests/test_fpcache.py; heap maps an object to what it holds  *)
(* now.                                                                    *)

Keys == 0..MaxKey
ObjRefs == {"o1", "o2"}
Atoms == {"a", "c"}

\* everything reachable from the object, at every depth
DeepValue(h, ref) == <<h[ref].item, h[ref].nested>>

FPNoCall == [op |-> "new", key |-> 0, ref |-> "", result |-> None]

\* FPCache.__init__, and the caller's objects as first built
FPCacheInit ==
    /\ hb_is_bid = TRUE
    /\ halfbook = <<>>
    /\ hb_call = HBNoCall
    /\ cache = <<>>
    /\ heap = [o \in ObjRefs |-> [item |-> "a", nested |-> "a"]]
    /\ fp_call = FPNoCall
    /\ transcript = <<>>
    /\ current_state = <<>>
    /\ current_position = 0
    /\ current_timestamp = 0
    /\ obs_cache = <<>>
    /\ last_cached_ts = 0
    /\ tv_call = <<>>
    /\ bids = <<>>
    /\ asks = <<>>
    /\ PfInit
    /\ PipelineInit
    /\ first_message = TRUE
    /\ emitted = <<>>
    /\ cp_call = <<>>
    /\ n_messages = 0
    /\ replayed = <<>>
    /\ dl_call = <<>>

\* cache.add(key, o)
FPAdd ==
    \E key \in Keys, o \in ObjRefs :
        /\ cache' = FPCacheAdd(cache, key, o)
        /\ fp_call' = [op |-> "add", key |-> key, ref |-> o, result |-> None]
        /\ UNCHANGED heap

\* cache.get(key)
FPGet ==
    \E key \in 0..(MaxKey + 1) :
        /\ fp_call' = [op |-> "get", key |-> key, ref |-> "",
                       result |-> FPCacheGet(cache, key)]
        /\ UNCHANGED <<cache, heap>>

\* o[0] = atom : the caller mutates the object it passed, at the top level
FPMutateTop ==
    \E o \in ObjRefs, x \in Atoms :
        /\ heap' = [heap EXCEPT ![o].item = x]
        /\ fp_call' = [op |-> "mutate", key |-> 0, ref |-> "", result |-> None]
        /\ UNCHANGED cache

\* o[1][0] = atom : the caller mutates a list nested in the object
FPMutateNested ==
    \E o \in ObjRefs, x \in Atoms :
        /\ heap' = [heap EXCEPT ![o].nested = x]
        /\ fp_call' = [op |-> "mutate_nested", key |-> 0, ref |-> "", result |-> None]
        /\ UNCHANGED cache

FPCacheNext ==
    \/ FPAdd /\ UNCHANGED <<hbVars, tvVars, cpVars, dlVars, pfVars, apVars>>
    \/ FPGet /\ UNCHANGED <<hbVars, tvVars, cpVars, dlVars, pfVars, apVars>>
    \/ FPMutateTop /\ UNCHANGED <<hbVars, tvVars, cpVars, dlVars, pfVars, apVars>>
    \/ FPMutateNested /\ UNCHANGED <<hbVars, tvVars, cpVars, dlVars, pfVars, apVars>>

FPCacheSpec == FPCacheInit /\ [][FPCacheNext]_vars

----------------------------------------------------------------------------
(* Properties of the cache.                                                *)

\* the equal-or-predecessor lookup: the value at key, else the value at the
\* greatest smaller key, else None
PredecessorLookup(c, key) ==
    LET below == {k \in DOMAIN c : k <= key}
    IN IF below = {}
       THEN None
       ELSE Some(c[CHOOSE x \in below : \A y \in below : y <= x])

\* C6: get(k) returns the value stored at k when k is a key, otherwise the
\* value stored at the greatest key smaller than k, otherwise None; never
\* the value of a key greater than k.
C6_EqualOrPredecessor ==
    fp_call.op = "get" => fp_call.result = PredecessorLookup(cache, fp_call.key)

\* C7: after add(k, v), no later mutation of v by the caller (at any depth)
\* and no later add changes what get(k) returns: across every step the value
\* returned for a stored key k stays equal, at every depth, to what it was.
C7_Isolation ==
    [][\A k \in DOMAIN cache :
          DeepValue(heap', FPCacheGet(cache', k)[1])
              = DeepValue(heap, FPCacheGet(cache, k)[1])]_vars

\* C8: add(k, v2) when k is already a key leaves the whole cache unchanged,
\* and get(k) returns afterwards what it returned before.
C8_FirstWriteWins ==
    [][\A k \in Keys :
          (fp_call'.op = "add" /\ fp_call'.key = k /\ k \in DOMAIN cache)
              => /\ cache' = cache
                 /\ FPCacheGet(cache', k) = FPCacheGet(cache, k)
                 /\ DeepValue(heap', FPCacheGet(cache', k)[1])
                        = DeepValue(heap, FPCacheGet(cache, k)[1])]_vars

\* a second add on a key that holds another object has been made
C8_Witness ==
    /\ fp_call.op = "add"
    /\ fp_call.key \in DOMAIN cache
    /\ cache[fp_call.key] # fp_call.ref

----------------------------------------------------------------------------
(* The traverser driven by arbitrary calls over a transcript.              *)

\* cache_frequency_seconds, the constructor's default
CacheFrequencySeconds == 10

\* timestamp of the snapshot record
SnapshotTs == 20 * 1000
\* the snapshot record (line 1)
SnapshotRecord ==
    [t |-> SnapshotTs, s |-> 1,
     b |-> <<<<"2", "5">>, <<"1", "5">>>>,
     a |-> <<<<"5", "5">>>>]
\* time between a record and the next: the same update set, less than the
\* checkpoint spacing, more than the checkpoint spacing
Gaps == {0, 4000, 12000}
\* what a delta record changes
DeltaBodies ==
    { [b |-> <<<<"3", "7">>>>],
      [b |-> <<<<"3", "0">>, <<"2", "7">>>>, a |-> <<<<"4", "7">>>>] }

\* the transcripts: the snapshot, then NumDeltas records with non-decreasing
\* timestamps and increasing sequence numbers; the first delta comes after
\* the snapshot's timestamp, later ones may share their predecessor's
RECURSIVE Transcripts(_)
Transcripts(n) ==
    IF n = 0
    THEN {<<SnapshotRecord>>}
    ELSE {Append(f, body @@ [t |-> f[Len(f)].t + gap, s |-> f[Len(f)].s + 1]) :
            f \in Transcripts(n - 1),
            gap \in IF n = 1 THEN Gaps \ {0} ELSE Gaps,
            body \in DeltaBodies}

\* the logical times the calls may ask for
TimeLo == SnapshotTs - 4000
TimeHi == transcript[Len(transcript)].t + 4000

SkipSeconds == {0 - 12, 0 - 4, 4, 12}
MoveSeconds == {0 - 4, 0, 4, 12}
AtTimes == {SnapshotTs + 4500, SnapshotTs + 24000}

\* the traverser object
Trav ==
    [current_state |-> current_state,
     current_position |-> current_position,
     current_timestamp |-> current_timestamp,
     obs_cache |-> obs_cache,
     last_cached_ts |-> last_cached_ts,
     cache_frequency_seconds |-> CacheFrequencySeconds]

\* a traverser object before _load_initial_snapshot
NewTrav ==
    [current_state |-> <<>>, current_position |-> 0, current_timestamp |-> 0,
     obs_cache |-> <<>>, last_cached_ts |-> 0,
     cache_frequency_seconds |-> CacheFrequencySeconds]

Becomes(tr) ==
    /\ current_state' = tr.current_state
    /\ current_position' = tr.current_position
    /\ current_timestamp' = tr.current_timestamp
    /\ obs_cache' = tr.obs_cache
    /\ last_cached_ts' = tr.last_cached_ts

\* what is remembered of a call: the method, the logical time it asked for,
\* whether it raised, whether it asked for an earlier time than the logical
\* time it started from, and what the call before it was: a step, a skip
\* to an earlier time, or another call
Call(op, target, raised, back) ==
    [op |-> op, target |-> target, raised |-> raised, back |-> back,
     prev |-> IF tv_call.op = "step" THEN "step"
              ELSE IF tv_call.op = "skip" /\ tv_call.back THEN "back"
              ELSE "other"]

\* OrderbookTraverser.__init__
TraverserInit ==
    /\ hb_is_bid = TRUE
    /\ halfbook = <<>>
    /\ hb_call = HBNoCall
    /\ cache = <<>>
    /\ heap = <<>>
    /\ fp_call = <<>>
    /\ transcript \in Transcripts(NumDeltas)
    /\ current_state = LoadInitialSnapshot(NewTrav, transcript).current_state
    /\ current_position = LoadInitialSnapshot(NewTrav, transcript).current_position
    /\ current_timestamp = LoadInitialSnapshot(NewTrav, transcript).current_timestamp
    /\ obs_cache = LoadInitialSnapshot(NewTrav, transcript).obs_cache
    /\ last_cached_ts = LoadInitialSnapshot(NewTrav, transcript).last_cached_ts
    /\ tv_call = [op |-> "new", target |-> 0, raised |-> FALSE, back |-> FALSE,
                  prev |-> "other"]
    /\ bids = <<>>
    /\ asks = <<>>
    /\ PfInit
    /\ PipelineInit
    /\ first_message = TRUE
    /\ emitted = <<>>
    /\ cp_call = <<>>
    /\ n_messages = 0
    /\ replayed = <<>>
    /\ dl_call = <<>>

\* traverser.step()
TStep ==
    /\ Becomes(Step(Trav, transcript))
    /\ tv_call' = Call("step", 0, FALSE, FALSE)
    /\ UNCHANGED transcript

\* traverser.skip(seconds)
TSkip ==
    \E seconds \in SkipSeconds :
        /\ current_timestamp + seconds * 1000 \in TimeLo..TimeHi
        /\ Becomes(Skip(Trav, transcript, seconds * 1000))
        /\ tv_call' = Call("skip", current_timestamp + seconds * 1000, FALSE, seconds < 0)
        /\ UNCHANGED transcript

\* traverser.at(timestamp)
TAt ==
    \E timestamp \in AtTimes :
        /\ current_timestamp + AtMs(Trav, timestamp) \in TimeLo..TimeHi
        /\ Becomes(Skip(Trav, transcript, AtMs(Trav, timestamp)))
        /\ tv_call' = Call("at", current_timestamp + AtMs(Trav, timestamp), FALSE,
                            AtMs(Trav, timestamp) < 0) @@ [arg |-> timestamp]
        /\ UNCHANGED transcript

\* traverser.move(seconds)
TMove ==
    \E seconds \in MoveSeconds :
        /\ current_state.timestamp + seconds * 1000 \in TimeLo..TimeHi
        /\ Becomes(Move(Trav, transcript, seconds * 1000).tr)
        /\ tv_call' = Call("move", current_state.timestamp + seconds * 1000,
                            Move(Trav, transcript, seconds * 1000).raised, FALSE)
                          @@ [range |-> Move(Trav, transcript, seconds * 1000).range]
        /\ UNCHANGED transcript

\* traverser.reset()
TReset ==
    /\ Becomes(Reset(Trav, transcript))
    /\ tv_call' = Call("reset", 0, FALSE, FALSE)
    /\ UNCHANGED transcript

Next ==
    \/ TStep /\ UNCHANGED <<hbVars, fpVars, cpVars, dlVars, pfVars, apVars>>
    \/ TSkip /\ UNCHANGED <<hbVars, fpVars, cpVars, dlVars, pfVars, apVars>>
    \/ TAt /\ UNCHANGED <<hbVars, fpVars, cpVars, dlVars, pfVars, apVars>>
    \/ TMove /\ UNCHANGED <<hbVars, fpVars, cpVars, dlVars, pfVars, apVars>>
    \/ TReset /\ UNCHANGED <<hbVars, fpVars, cpVars, dlVars, pfVars, apVars>>

Spec == TraverserInit /\ [][Next]_vars

----------------------------------------------------------------------------
(* Properties of the traverser.                                            *)

\* the snapshot with the records up to offset pos applied in file order
RECURSIVE StateAtOffset(_, _)
StateAtOffset(f, pos) ==
    IF pos <= 1
    THEN [bids |-> f[1].b, asks |-> f[1].a, timestamp |-> f[1].t, sequence |-> f[1].s]
    ELSE ProcessUpdate(StateAtOffset(f, pos - 1), f[pos])

\* the offset of the first record with a timestamp > target (or end of file)
OffsetAfter(f, target) ==
    IF \E i \in 2..Len(f) : f[i].t > target
    THEN (CHOOSE i \in 2..Len(f) :
             /\ f[i].t > target
             /\ \A j \in 2..Len(f) : f[j].t > target => i <= j) - 1
    ELSE Len(f)

\* while current_state.timestamp < t: step()   (it ends at end of file too)
RECURSIVE StepWhileBefore(_, _, _)
StepWhileBefore(tr, f, t) ==
    IF tr.current_state.timestamp < t /\ tr.current_position < Len(f)
    THEN StepWhileBefore(Step(tr, f), f, t)
    ELSE tr

\* the timestamps at which the transcript has a record
RecordTimes(f) == {f[i].t : i \in 1..Len(f)}

\* C2: reset() then skip to t ends with the same current_state as reset()
\* then step() repeated while current_state.timestamp < t, whatever the
\* checkpoint cache held before the reset.  Stated for the times t at which
\* the transcript has a record, where "every record of timestamp <= t" and
\* "every update set until the timestamp reaches t" are the same records.
C2_SeekEquivalence ==
    [][(/\ tv_call.op = "reset"
        /\ tv_call'.op = "skip"
        /\ tv_call'.target \in RecordTimes(transcript))
          => current_state' = StepWhileBefore(Trav, transcript, tv_call'.target).current_state]_vars

\* C3: after skip(seconds) returns, with a target not before the snapshot's
\* timestamp, current_state is the snapshot with exactly the records of
\* timestamp <= target applied in file order and current_position is the
\* offset of the first record with timestamp > target (or end of file).
C3_SkipResult ==
    (tv_call.op = "skip" /\ tv_call.target >= transcript[1].t)
        => /\ current_position = OffsetAfter(transcript, tv_call.target)
           /\ current_state = StateAtOffset(transcript, OffsetAfter(transcript, tv_call.target))

\* C4: in every reachable state current_state.timestamp <= current_timestamp.
C4_StateNotAfterLogicalTime ==
    current_state.timestamp <= current_timestamp

\* C5: in every reachable state whose current_position is not at end of file,
\* current_timestamp < the timestamp of the record at current_position.
C5_LogicalTimeBeforeNextRecord ==
    current_position < Len(transcript)
        => current_timestamp < transcript[current_position + 1].t

\* the offset of the end of the update set that starts at offset pos: that
\* of the first record after pos with a timestamp greater than that of the
\* record at pos (or end of file)
UpdateSetEnd(f, pos) ==
    IF \E i \in (pos + 1)..Len(f) : f[i].t > f[pos + 1].t
    THEN (CHOOSE i \in (pos + 1)..Len(f) :
             /\ f[i].t > f[pos + 1].t
             /\ \A j \in (pos + 1)..Len(f) : f[j].t > f[pos + 1].t => i <= j) - 1
    ELSE Len(f)

\* state with the records between the offsets from and to applied in order
RECURSIVE ApplyRecords(_, _, _, _)
ApplyRecords(state, f, from, to) ==
    IF to <= from
    THEN state
    ELSE ProcessUpdate(ApplyRecords(state, f, from, to - 1), f[to])

\* C12: a step() from a state that is not at end of file applies the record
\* at current_position and every following record of the same timestamp,
\* no record of a greater timestamp, leaves current_position at the first
\* record of a greater timestamp (or at end of file) and sets
\* current_timestamp to current_state.timestamp.
C12_StepOneUpdateSet ==
    [][(tv_call'.op = "step" /\ current_position < Len(transcript))
        => /\ current_position' = UpdateSetEnd(transcript, current_position)
           /\ current_state' = ApplyRecords(current_state, transcript, current_position,
                                            UpdateSetEnd(transcript, current_position))
           /\ current_timestamp' = current_state'.timestamp]_vars

\* a step has applied two records of one timestamp and stopped before a
\* record of a greater timestamp
C12_Witness ==
    /\ tv_call.op = "step"
    /\ current_position >= 3
    /\ current_position < Len(transcript)
    /\ transcript[current_position].t = transcript[current_position - 1].t
    /\ transcript[current_position + 1].t > transcript[current_position].t
    /\ current_state.sequence = transcript[current_position].s
    /\ current_timestamp = transcript[current_position].t

\* the pair (timestamp, sequence) of state a is before that of state b
PairBefore(a, b) ==
    \/ a.timestamp < b.timestamp
    \/ a.timestamp = b.timestamp /\ a.sequence < b.sequence

\* C13 as stated: across every two successive step() calls, from any
\* reachable state, current_state.timestamp does not decrease and the pair
\* (timestamp, sequence) of current_state strictly increases.
C13_StepMonotonic ==
    [][(tv_call.op = "step" /\ tv_call'.op = "step")
        => /\ current_state.timestamp <= current_state'.timestamp
           /\ PairBefore(current_state, current_state')]_vars

\* C13 amended: the same across two successive step() calls of which the
\* second is not made at end of file (at end of file step() reads nothing
\* and leaves current_state as it is).
C13_StepMonotonicBeforeEof ==
    [][(tv_call.op = "step" /\ tv_call'.op = "step" /\ current_position < Len(transcript))
        => /\ current_state.timestamp <= current_state'.timestamp
           /\ PairBefore(current_state, current_state')]_vars

\* a step made right after a step has applied the records of a later update
\* set
C13_Witness ==
    /\ tv_call.op = "step"
    /\ tv_call.prev = "step"
    /\ current_position >= 3
    /\ current_state.sequence = transcript[current_position].s
    /\ current_timestamp > transcript[2].t

\* C14: a skip with negative seconds to a target T not before the snapshot's
\* timestamp, followed by step(), leaves current_state equal to the state
\* of the forward pass right after the first update set of timestamp > T
\* (stated when the transcript has a record of timestamp > T).
C14_RewindThenStep ==
    [][(/\ tv_call.op = "skip"
        /\ tv_call.back
        /\ tv_call.target >= SnapshotTs
        /\ OffsetAfter(transcript, tv_call.target) < Len(transcript)
        /\ tv_call'.op = "step")
          => current_state' =
                StateAtOffset(transcript,
                              UpdateSetEnd(transcript,
                                           OffsetAfter(transcript, tv_call.target)))]_vars

\* C20: skip never seeks before the snapshot: in every reachable state
\* current_timestamp >= the snapshot's timestamp, and a skip whose raw
\* target is before the snapshot's timestamp leaves current_timestamp at
\* the snapshot's timestamp.
C20_NeverBeforeSnapshot ==
    /\ current_timestamp >= transcript[1].t
    /\ (tv_call.op = "skip" /\ tv_call.target < transcript[1].t)
          => current_timestamp = transcript[1].t

\* C21: when skip(seconds) has returned, current_timestamp is the target
\* time, whether skip restored a checkpoint of exactly that timestamp or
\* read records forward.
C21_SkipSetsLogicalTime ==
    tv_call.op = "skip" => current_timestamp = tv_call.target

\* C22: at(timestamp_ms) ends in the same current_state, current_position
\* and current_timestamp as skip called with
\* (timestamp_ms - current_state.timestamp)/1000 seconds, whether that is a
\* whole number of seconds or not.
C22_AtIsSkip ==
    [][tv_call'.op = "at"
        => LET sk == Skip(Trav, transcript, tv_call'.arg - current_state.timestamp)
           IN /\ current_state' = sk.current_state
              /\ current_position' = sk.current_position
              /\ current_timestamp' = sk.current_timestamp]_vars

\* the best-ask and best-bid price values of the states a read from offset
\* from to offset to goes through: the starting state and the state after
\* each record applied
BestAsksAlong(state, f, from, to) ==
    {GetBestAsk(ApplyRecords(state, f, from, k))[1].num : k \in from..to}
BestBidsAlong(state, f, from, to) ==
    {GetBestBid(ApplyRecords(state, f, from, k))[1].num : k \in from..to}

\* the least and the greatest element of a set of numbers
Least(S) == CHOOSE m \in S : \A x \in S : m <= x
Greatest(S) == CHOOSE m \in S : \A x \in S : m >= x

\* C23: move(seconds) with seconds > 0 returns a PriceRange whose lowest_ask
\* is the minimum best ask and whose highest_bid is the maximum best bid
\* over the starting state and the state after each record applied during
\* the move, the last record applied included (also at end of file).
C23_MoveRange ==
    [][(tv_call'.op = "move" /\ ~tv_call'.raised)
        => /\ tv_call'.range.lowest_ask[1].num
                = Least(BestAsksAlong(current_state, transcript,
                                      current_position, current_position'))
           /\ tv_call'.range.highest_bid[1].num
                = Greatest(BestBidsAlong(current_state, transcript,
                                         current_position, current_position'))]_vars

\* C24: move(seconds) with seconds <= 0 fails with an error and leaves
\* current_state, current_position, current_timestamp and the checkpoint
\* cache unchanged.
C24_MoveRejectsNonPositive ==
    [][(tv_call'.op = "move" /\ tv_call'.target - current_state.timestamp <= 0)
        => /\ tv_call'.raised
           /\ current_state' = current_state
           /\ current_position' = current_position
           /\ current_timestamp' = current_timestamp
           /\ obs_cache' = obs_cache
           /\ last_cached_ts' = last_cached_ts]_vars

\* a move of zero seconds has been refused by a traverser that had read
\* records before
C24_Witness ==
    /\ tv_call.op = "move"
    /\ tv_call.raised
    /\ tv_call.target <= current_state.timestamp
    /\ current_position > 1

\* C30: move(seconds) with seconds > 0 reads up to the target
\* current_timestamp + seconds*1000, sets current_timestamp to it and
\* returns start_time = the previous current_timestamp and
\* end_time = start_time + seconds*1000; current_timestamp never decreases.
\* Stated for the moves that start with current_timestamp not before
\* current_state.timestamp.
C30_MoveFromLogicalTime ==
    [][(/\ tv_call'.op = "move" /\ ~tv_call'.raised
        /\ current_timestamp >= current_state.timestamp)
        => LET ms == tv_call'.target - current_state.timestamp
           IN /\ current_timestamp' = current_timestamp + ms
              /\ current_timestamp' >= current_timestamp
              /\ tv_call'.range.start_time = current_timestamp
              /\ tv_call'.range.end_time = current_timestamp + ms
              /\ current_position' = OffsetAfter(transcript, current_timestamp + ms)]_vars

\* C25: reset() restores current_state to the snapshot, current_position to
\* the offset of line 2 and current_timestamp to the snapshot's timestamp,
\* and leaves the checkpoint cache, keys and values, as it was.
C25_ResetKeepsCache ==
    [][tv_call'.op = "reset"
        => /\ current_state' = StateAtOffset(transcript, 1)
           /\ current_position' = 1
           /\ current_timestamp' = transcript[1].t
           /\ obs_cache' = obs_cache]_vars

\* a reset has been made by a traverser that had read to the end of the
\* file and holds a checkpoint besides the snapshot's
C25_Witness ==
    /\ tv_call.op = "reset"
    /\ current_position = 1
    /\ current_timestamp = transcript[1].t
    /\ \E k \in DOMAIN obs_cache : k > transcript[1].t

\* C26: once a checkpoint is stored under key k, the value stored under k
\* never changes, whatever calls follow.
C26_CheckpointsImmutable ==
    [][\A k \in DOMAIN obs_cache :
          /\ k \in DOMAIN obs_cache'
          /\ obs_cache'[k] = obs_cache[k]]_vars

\* a skip back has restored a checkpoint and a step has then applied
\* records to the live state: the live state is past a checkpoint that is
\* not the snapshot's
C26_Witness ==
    /\ tv_call.op = "step"
    /\ tv_call.prev = "back"
    /\ \E k \in DOMAIN obs_cache :
          /\ k > transcript[1].t
          /\ obs_cache[k][2] < current_position
          /\ obs_cache[k][1] = StateAtOffset(transcript, obs_cache[k][2])

\* C27: every two distinct keys of the checkpoint cache differ by more than
\* cache_frequency_seconds*1000 ms, and the number of checkpoints is at most
\* (last record timestamp - snapshot timestamp)/(cache_frequency_seconds*1000) + 1.
C27_CheckpointSpacing ==
    /\ \A k1, k2 \in DOMAIN obs_cache :
          k1 < k2 => k2 - k1 > CacheFrequencySeconds * 1000
    /\ Cardinality(DOMAIN obs_cache)
          <= ((transcript[Len(transcript)].t - transcript[1].t)
                 \div (CacheFrequencySeconds * 1000)) + 1

\* C28: a read loop started by step or move applies the records from
\* current_position on, in order and once each, and stops on the record on
\* which its hook returns true: that record is not applied,
\* current_position stays on it (the next read starts with it) and every
\* checkpoint inserted holds a state and the offset right after a record
\* that was applied.
C28_ReadLoopStopsBeforeRecord ==
    [][(tv_call'.op \in {"step", "move"} /\ ~tv_call'.raised)
        => /\ current_position' >= current_position
           /\ current_state' = ApplyRecords(current_state, transcript,
                                            current_position, current_position')
           /\ current_state' = StateAtOffset(transcript, current_position')
           /\ (tv_call'.op = "step" /\ current_position < Len(transcript))
                 => current_position' > current_position
           /\ (tv_call'.op = "move" /\ current_position' < Len(transcript))
                 => transcript[current_position' + 1].t > tv_call'.target
           /\ (tv_call'.op = "step" /\ current_position' < Len(transcript))
                 => transcript[current_position' + 1].t > current_state'.timestamp
           /\ \A k \in DOMAIN obs_cache' \ DOMAIN obs_cache :
                 /\ obs_cache'[k][2] \in (current_position + 1)..current_position'
                 /\ obs_cache'[k][1] = StateAtOffset(transcript, obs_cache'[k][2])]_vars

\* a move has stopped on a record later than its target, after applying
\* the record before it
C28_Witness ==
    /\ tv_call.op = "move"
    /\ ~tv_call.raised
    /\ current_position \in 2..(Len(transcript) - 1)
    /\ transcript[current_position + 1].t > tv_call.target
    /\ transcript[current_position].t <= tv_call.target
    /\ current_state.sequence = transcript[current_position].s

\* C31: in every reachable state current_state is the snapshot with exactly
\* the records before current_position applied in file order, and every
\* checkpoint pairs a state and an offset in the same relation, under the
\* key that is its state's timestamp.
C31_PositionStateConsistent ==
    /\ current_position \in 1..Len(transcript)
    /\ current_state = StateAtOffset(transcript, current_position)
    /\ \A k \in DOMAIN obs_cache :
          /\ obs_cache[k][2] \in 1..Len(transcript)
          /\ obs_cache[k][1] = StateAtOffset(transcript, obs_cache[k][2])
          /\ k = obs_cache[k][1].timestamp

\* a backward skip has restored a checkpoint taken after the snapshot: the
\* live state and position are that checkpoint's
C31_Witness ==
    /\ tv_call.op = "skip"
    /\ tv_call.back
    /\ current_position > 1
    /\ \E k \in DOMAIN obs_cache :
          /\ k > transcript[1].t
          /\ obs_cache[k] = <<current_state, current_position>>

\* C32: no checkpoint is taken in the middle of an update set: for every
\* checkpoint stored under key k with offset o, every record at or after
\* offset o has a timestamp greater than k.
C32_CheckpointAtUpdateSetEnd ==
    \A k \in DOMAIN obs_cache :
        \A i \in (obs_cache[k][2] + 1)..Len(transcript) : transcript[i].t > k

----------------------------------------------------------------------------
(* The compressor driven by arbitrary messages, and a reader that rebuilds *)
(* the book from the records it emits: the first record as the initial     *)
(* state (_load_initial_snapshot), each later record through               *)
(* _process_update.                                                        *)

\* the levels a snapshot message may list on its bid side: unsorted lists,
\* repeated prices and zero sizes included
CpSnapshotBidEntries == {<<"1", "5">>, <<"2", "5">>, <<"3", "5">>, <<"2", "0">>}
CpSnapshotAskEntries == {<<"4", "5">>}
\* the levels a later message may list
CpDeltaBidEntries == PriceStrs \X SizeStrs
CpDeltaAskEntries == {"4"} \X {"0", "5"}

\* data with both sides, or with one of them missing
CpData(seq, bid_sides, ask_sides) ==
    {[seq |-> seq, b |-> b, a |-> a] : b \in bid_sides, a \in ask_sides}
        \cup {[seq |-> seq, b |-> b] : b \in bid_sides}
        \cup {[seq |-> seq, a |-> a] : a \in ask_sides}

\* the messages that may come as number k (k counted from 1): a snapshot
\* or a delta with up to MaxSnapshotLevels bid levels first, then snapshots
\* or deltas touching up to MaxDeltaLevels levels a side
CpMessages(k) ==
    {[type |-> type, ts |-> 1000 * k, data |-> data] :
        type \in {"snapshot", "delta"},
        data \in IF k = 1
                 THEN CpData(k, Batches(CpSnapshotBidEntries, MaxSnapshotLevels),
                             Batches(CpSnapshotAskEntries, MaxDeltaLevels))
                 ELSE CpData(k, Batches(CpDeltaBidEntries, MaxDeltaLevels),
                             Batches(CpDeltaAskEntries, MaxDeltaLevels))}

\* the processor object
Proc ==
    [bids |-> bids, asks |-> asks, first_message |-> first_message,
     max_output_depth |-> MaxOutputDepth]

\* the reader's state after one more emitted record
Replay(state, record) ==
    IF record = <<>>
    THEN state
    ELSE IF state = None
         THEN Some([bids |-> record.b, asks |-> record.a, timestamp |-> record.t,
                    sequence |-> record.s])
         ELSE Some(ProcessUpdate(state[1], record))

\* OrderbookProcessor.__init__
CompressorInit ==
    /\ hb_is_bid = TRUE
    /\ halfbook = <<>>
    /\ hb_call = HBNoCall
    /\ cache = <<>>
    /\ heap = <<>>
    /\ fp_call = <<>>
    /\ transcript = <<>>
    /\ current_state = <<>>
    /\ current_position = 0
    /\ current_timestamp = 0
    /\ obs_cache = <<>>
    /\ last_cached_ts = 0
    /\ tv_call = <<>>
    /\ bids = <<>>
    /\ asks = <<>>
    /\ PfInit
    /\ PipelineInit
    /\ first_message = TRUE
    /\ emitted = <<>>
    /\ cp_call = [message |-> <<>>, raised |-> FALSE]
    /\ n_messages = 0
    /\ replayed = None
    /\ dl_call = <<>>

\* processor.process_message(message), and the reader reading what it emitted
CpProcessMessage ==
    /\ n_messages < MaxMessages
    /\ \E message \in CpMessages(n_messages + 1) :
        LET r == ProcessMessage(Proc, message)
        IN /\ bids' = r.proc.bids
           /\ asks' = r.proc.asks
           /\ first_message' = r.proc.first_message
           /\ emitted' = r.compressed
           /\ cp_call' = [message |-> message, raised |-> r.raised]
           /\ n_messages' = n_messages + 1
           /\ replayed' = Replay(replayed, r.compressed)

CompressorNext ==
    CpProcessMessage /\ UNCHANGED <<hbVars, fpVars, tvVars, dlVars, pfVars, apVars>>

CompressorSpec == CompressorInit /\ [][CompressorNext]_vars

----------------------------------------------------------------------------
(* Properties of the compressor.                                           *)

\* the reader's side and the compressor's top levels hold the same prices,
\* the same size strings, in the same order
SameLevels(side, top) ==
    /\ Len(side) = Len(top)
    /\ \A i \in 1..Len(side) :
          /\ PriceNum(side[i][1]) = top[i][1].num
          /\ side[i][2] = top[i][2]

\* C1: after every emitted record, the bids and asks rebuilt from the
\* records emitted so far equal the compressor's live bids and asks
\* truncated to their first max_output_depth levels.
C1_RoundTrip ==
    (emitted # <<>> /\ replayed # None)
        => /\ SameLevels(replayed[1].bids, Take(bids, MaxOutputDepth))
           /\ SameLevels(replayed[1].asks, Take(asks, MaxOutputDepth))

\* a list of levels as <<price value, size string>> pairs
NumView(hb) == [i \in 1..Len(hb) |-> <<hb[i][1].num, hb[i][2]>>]

\* the first max_output_depth levels of a side, as the reader sees them
TopView(hb) == NumView(Take(hb, MaxOutputDepth))

\* C16: a non-first message yields no record when neither side's top N
\* changed, and otherwise one record with the message's ts and seq in which
\* side b (resp. a) is present exactly when that side's top N changed.
C16_EmitIffTopChanged ==
    [][(~first_message /\ n_messages' = n_messages + 1)
        => LET b_changed == TopView(bids') # TopView(bids)
               a_changed == TopView(asks') # TopView(asks)
           IN IF ~b_changed /\ ~a_changed
              THEN emitted' = <<>>
              ELSE /\ emitted' # <<>>
                   /\ emitted'.t = cp_call'.message.ts
                   /\ emitted'.s = cp_call'.message.data.seq
                   /\ ("b" \in DOMAIN emitted') <=> b_changed
                   /\ ("a" \in DOMAIN emitted') <=> a_changed]_vars

\* C17: a first message that is not a snapshot makes process_message fail,
\* emit nothing and leave the compressor as it was constructed (both
\* halfbooks empty, first_message set); a snapshot given next is then
\* processed as the first message.
C17_FirstMustBeSnapshot ==
    [][/\ (n_messages = 0 /\ n_messages' = 1 /\ cp_call'.message.type # "snapshot")
          => /\ cp_call'.raised
             /\ emitted' = <<>>
             /\ bids' = <<>>
             /\ asks' = <<>>
             /\ first_message'
       /\ (/\ n_messages = 1 /\ n_messages' = 2
           /\ cp_call.message.type # "snapshot"
           /\ cp_call'.message.type = "snapshot"
           /\ {"b", "a"} \subseteq DOMAIN cp_call'.message.data)
          => /\ ~cp_call'.raised
             /\ ~first_message'
             /\ bids' = HalfbookSet(cp_call'.message.data.b, TRUE)
             /\ asks' = HalfbookSet(cp_call'.message.data.a, FALSE)
             /\ DOMAIN emitted' = {"t", "s", "b", "a"}
             /\ emitted'.b = StrLevels(Take(bids', MaxOutputDepth))
             /\ emitted'.a = StrLevels(Take(asks', MaxOutputDepth))]_vars

\* a first message of type delta has been refused
C17_Witness ==
    /\ n_messages = 1
    /\ cp_call.message.type = "delta"
    /\ {"b", "a"} \subseteq DOMAIN cp_call.message.data
    /\ cp_call.message.data.b # <<>>
    /\ cp_call.raised
    /\ first_message
    /\ bids = <<>>

\* how many times the list holds the element
Count(list, e) == Cardinality({i \in 1..Len(list) : list[i] = e})

\* level e is not after level g in the best-first order of the side
NotWorse(e, g, is_bid) ==
    IF is_bid THEN PriceNum(e[1]) >= PriceNum(g[1]) ELSE PriceNum(e[1]) <= PriceNum(g[1])

\* out lists the min(n, depth) best levels of input, best first
BestLevels(out, input, is_bid, n) ==
    /\ Len(out) = Min(n, Len(input))
    /\ \A i \in 1..Len(out) : Count(out, out[i]) <= Count(input, out[i])
    /\ \A i, j \in 1..Len(out) : i < j => NotWorse(out[i], out[j], is_bid)
    /\ \A k \in 1..Len(input) :
          Count(out, input[k]) < Count(input, input[k])
              => \A i \in 1..Len(out) : NotWorse(out[i], input[k], is_bid)

NoSide(data, side) == side \notin DOMAIN data \/ data[side] = <<>>

\* C19: a non-first message whose data has side b (or a) absent or empty is
\* processed without error: that side's halfbook is unchanged, the record
\* (if any) has no entries for that side, and the other side is processed
\* normally.
C19_AbsentOrEmptySide ==
    [][(~first_message /\ n_messages' = n_messages + 1)
        => LET data == cp_call'.message.data
           IN /\ NoSide(data, "b")
                    => /\ ~cp_call'.raised
                       /\ bids' = bids
                       /\ emitted' # <<>> => "b" \notin DOMAIN emitted'
                       /\ ~NoSide(data, "a")
                             => asks' = UpdateHalfbook(asks, FALSE, data.a)
              /\ NoSide(data, "a")
                    => /\ ~cp_call'.raised
                       /\ asks' = asks
                       /\ emitted' # <<>> => "a" \notin DOMAIN emitted'
                       /\ ~NoSide(data, "b")
                             => bids' = UpdateHalfbook(bids, TRUE, data.b)]_vars

----------------------------------------------------------------------------
(* _calculate_deltas applied to two top-N views of one side.  A view is a  *)
(* mapping from price to size, held as a list in strict polarity order.    *)

\* the lists of at most n entries over the prices and the sizes
EntryLists(n) ==
    UNION {[1..k -> {<<Decimal(p), q>> : p \in PriceStrs, q \in SizeStrs}] : k \in 0..n}

\* the top-N views of a side
Views(is_bid) == {hb \in EntryLists(MaxOutputDepth) : StrictlyOrdered(hb, is_bid)}

\* the arguments are chosen, the function has not been called
DeltasInit ==
    /\ hb_is_bid = TRUE
    /\ halfbook = <<>>
    /\ hb_call = HBNoCall
    /\ cache = <<>>
    /\ heap = <<>>
    /\ fp_call = <<>>
    /\ transcript = <<>>
    /\ current_state = <<>>
    /\ current_position = 0
    /\ current_timestamp = 0
    /\ obs_cache = <<>>
    /\ last_cached_ts = 0
    /\ tv_call = <<>>
    /\ bids = <<>>
    /\ asks = <<>>
    /\ PfInit
    /\ PipelineInit
    /\ first_message = TRUE
    /\ emitted = <<>>
    /\ cp_call = <<>>
    /\ n_messages = 0
    /\ replayed = <<>>
    /\ \E is_bid \in BOOLEAN :
          \E new_halfbook \in Views(is_bid), old_halfbook \in Views(is_bid) :
              dl_call = [new_halfbook |-> new_halfbook, old_halfbook |-> old_halfbook,
                         is_bid |-> is_bid, returned |-> FALSE, changes |-> <<>>]

\* changes = _calculate_deltas(new_halfbook, old_halfbook, is_bid)
DLCalculateDeltas ==
    /\ ~dl_call.returned
    /\ dl_call' = [dl_call EXCEPT
                     !.returned = TRUE,
                     !.changes = CalculateDeltas(dl_call.new_halfbook, dl_call.old_halfbook,
                                                 dl_call.is_bid)]

DeltasNext ==
    DLCalculateDeltas /\ UNCHANGED <<hbVars, fpVars, tvVars, cpVars, pfVars, apVars>>

DeltasSpec == DeltasInit /\ [][DeltasNext]_vars

\* the size a view holds at the price p
SizeIn(view, p) == view[CHOOSE i \in 1..Len(view) : view[i][1].num = p][2]

\* the entries the delta algorithm asks for, as a set of <<price, size>>
ExpectedDeltas(new, old) ==
    {<<p, SizeIn(new, p)>> :
        p \in {x \in Levels(new) : x \notin Levels(old) \/ SizeIn(old, x) # SizeIn(new, x)}}
      \cup {<<p, "0">> : p \in Levels(old) \ Levels(new)}

\* C15: the entries _calculate_deltas returns are, as a set, exactly the
\* levels of new that old does not hold or holds with another size, and a
\* [price, "0"] for each level of old that new does not hold; no price whose
\* size is unchanged has an entry, and no price has two.
C15_DeltaAlgorithm ==
    dl_call.returned
        => LET out == dl_call.changes
           IN /\ {<<PriceNum(out[i][1]), out[i][2]>> : i \in 1..Len(out)}
                    = ExpectedDeltas(dl_call.new_halfbook, dl_call.old_halfbook)
              /\ \A i \in 1..Len(out) :
                    ~(/\ PriceNum(out[i][1]) \in Levels(dl_call.new_halfbook)
                      /\ PriceNum(out[i][1]) \in Levels(dl_call.old_halfbook)
                      /\ SizeIn(dl_call.new_halfbook, PriceNum(out[i][1]))
                            = SizeIn(dl_call.old_halfbook, PriceNum(out[i][1])))
              /\ \A i, j \in 1..Len(out) :
                    i # j => PriceNum(out[i][1]) # PriceNum(out[j][1])

\* a level stayed as it was and has no entry, a level came and is listed with
\* its size, a level went and is listed with "0"
C15_Witness ==
    /\ dl_call.returned
    /\ Len(dl_call.changes) = 2
    /\ \E p \in Levels(dl_call.new_halfbook) \cap Levels(dl_call.old_halfbook) :
          SizeIn(dl_call.new_halfbook, p) = SizeIn(dl_call.old_halfbook, p)
    /\ \E i \in 1..2 :
          /\ PriceNum(dl_call.changes[i][1]) \in Levels(dl_call.old_halfbook)
          /\ PriceNum(dl_call.changes[i][1]) \notin Levels(dl_call.new_halfbook)
          /\ dl_call.changes[i][2] = "0"
    /\ \E i \in 1..2 :
          /\ PriceNum(dl_call.changes[i][1]) \in Levels(dl_call.new_halfbook)
          /\ PriceNum(dl_call.changes[i][1]) \notin Levels(dl_call.old_halfbook)

----------------------------------------------------------------------------
(* The compressor given a well-formed snapshot and then updates whose      *)
(* prices and sizes may fail to parse.                                     *)

WellFormedSnapshots ==
    {[type |-> "snapshot", ts |-> 1000,
      data |-> [seq |-> 1, b |-> b, a |-> a]] :
        b \in Batches({<<"1", "5">>, <<"2", "5">>}, MaxOutputDepth),
        a \in Batches(CpSnapshotAskEntries, MaxDeltaLevels)}

\* the levels an update may list: changes, removals, and entries whose
\* price or size is not a number
UpdateBidEntries ==
    {<<"2", "7">>, <<"3", "7">>, <<"2", "0">>, <<"abc", "7">>, <<"3", "abc">>}
UpdateAskEntries ==
    {<<"4", "0">>, <<"5", "7">>, <<"abc", "7">>, <<"4", "abc">>}

Updates(k) ==
    {[type |-> "delta", ts |-> 1000 * k,
      data |-> [seq |-> k, b |-> b, a |-> a]] :
        b \in Batches(UpdateBidEntries, MaxOutputDepth),
        a \in Batches(UpdateAskEntries, MaxDeltaLevels)}

\* processor.process_message(message)
Deliver(message) ==
    LET r == ProcessMessage(Proc, message)
    IN /\ bids' = r.proc.bids
       /\ asks' = r.proc.asks
       /\ first_message' = r.proc.first_message
       /\ emitted' = r.compressed
       /\ cp_call' = [message |-> message, raised |-> r.raised]
       /\ n_messages' = n_messages + 1
       /\ replayed' = Replay(replayed, r.compressed)

UpSnapshot ==
    /\ n_messages = 0
    /\ \E message \in WellFormedSnapshots : Deliver(message)

UpUpdate ==
    /\ n_messages \in 1..(MaxMessages - 1)
    /\ \E message \in Updates(n_messages + 1) : Deliver(message)

UpdatesNext ==
    \/ UpSnapshot /\ UNCHANGED <<hbVars, fpVars, tvVars, dlVars, pfVars, apVars>>
    \/ UpUpdate /\ UNCHANGED <<hbVars, fpVars, tvVars, dlVars, pfVars, apVars>>

UpdatesSpec == CompressorInit /\ [][UpdatesNext]_vars

\* C29: process_message on a non-first message either completes, leaving
\* the live bids and asks as their updated clones, or raises and leaves
\* both the live bids and the live asks as they were before the call.
C29_UpdateAtomic ==
    [][(~first_message /\ n_messages' = n_messages + 1)
        => IF cp_call'.raised
           THEN bids' = bids /\ asks' = asks
           ELSE /\ bids' = UpdateHalfbook(HalfbookCopy(bids), TRUE,
                                          cp_call'.message.data.b)
                /\ asks' = UpdateHalfbook(HalfbookCopy(asks), FALSE,
                                          cp_call'.message.data.a)]_vars

----------------------------------------------------------------------------
(* process_orderbook_file.  Text is a list of tokens: the line break, and  *)
(* one token for the text json.dumps gives for a record (which holds no    *)
(* line break).                                                            *)

\* the line number at which the loop flushes: not line_nr % 10000
FlushPeriod == 10000
\* the longest input file, in lines
MaxFileLines == FlushPeriod + 2

\* the token "\n"
NL == [newline |-> TRUE]
\* json.dumps(compressed)
Dumps(compressed) == <<[json |-> compressed]>>

\* '\n'.join(strs)
RECURSIVE Join(_)
Join(strs) ==
    IF strs = <<>>
    THEN <<>>
    ELSE IF Len(strs) = 1
         THEN strs[1]
         ELSE strs[1] \o <<NL>> \o Join(Tail(strs))

\* the lines of a text: the pieces each "\n" ends, and what follows the last
RECURSIVE SplitLines(_)
SplitLines(text) ==
    IF text = <<>>
    THEN <<>>
    ELSE IF \E i \in 1..Len(text) : text[i] = NL
         THEN LET k == CHOOSE i \in 1..Len(text) :
                          /\ text[i] = NL
                          /\ \A j \in 1..(i - 1) : text[j] # NL
              IN <<SubSeq(text, 1, k - 1)>> \o SplitLines(SubSeq(text, k + 1, Len(text)))
         ELSE <<text>>

\* the message on the line numbered k of the input file: a snapshot first,
\* then for MaxMessages lines a delta that changes the best bid or one that
\* lists nothing, then deltas that list nothing
PfMessages(k) ==
    IF k = 0
    THEN {[type |-> "snapshot", ts |-> 1000,
           data |-> [seq |-> 1, b |-> <<<<"2", "5">>, <<"1", "5">>>>,
                     a |-> <<<<"4", "5">>>>]]}
    ELSE {[type |-> "delta", ts |-> 1000 * (k + 1),
           data |-> [seq |-> k + 1, b |-> b, a |-> <<>>]] :
             b \in IF k <= MaxMessages
                   THEN {<<>>, <<<<"3", "7">>>>, <<<<"3", "0">>>>}
                   ELSE {<<>>}}

\* one iteration of the loop over the input lines
PfLine ==
    /\ pf_pc = "loop"
    /\ pf_line_nr < MaxFileLines
    /\ \E message \in PfMessages(pf_line_nr) :
        LET compressed == ProcessMessage(Proc, message).compressed
            strs == IF compressed # <<>>
                    THEN Append(out_strings, Dumps(compressed))
                    ELSE out_strings
        IN /\ Deliver(message)
           /\ pf_results' = IF compressed # <<>>
                            THEN Append(pf_results, compressed)
                            ELSE pf_results
           /\ IF pf_line_nr % FlushPeriod = 0
              THEN /\ f_out' = f_out \o Join(strs) \o <<NL>>
                   /\ out_strings' = <<>>
              ELSE /\ f_out' = f_out
                   /\ out_strings' = strs
           /\ pf_line_nr' = pf_line_nr + 1
           /\ pf_pc' = pf_pc

\* end of the input file: the flush after the loop
PfEof ==
    /\ pf_pc = "loop"
    /\ f_out' = IF out_strings # <<>>
                THEN f_out \o Join(out_strings) \o <<NL>>
                ELSE f_out
    /\ pf_pc' = "returned"
    /\ UNCHANGED <<pf_line_nr, out_strings, pf_results, cpVars>>

FileNext ==
    \/ PfLine /\ UNCHANGED <<hbVars, fpVars, tvVars, dlVars, apVars>>
    \/ PfEof /\ UNCHANGED <<hbVars, fpVars, tvVars, dlVars, apVars>>

FileSpec == CompressorInit /\ [][FileNext]_vars

\* C33: the output file holds exactly the non-empty results of
\* process_message, one a line and in input order, and no empty line.
C33_OutputLines ==
    /\ \A i \in 1..Len(SplitLines(f_out)) : SplitLines(f_out)[i] # <<>>
    /\ pf_pc = "returned"
          => SplitLines(f_out) = [i \in 1..Len(pf_results) |-> Dumps(pf_results[i])]

----------------------------------------------------------------------------
(* compress_orderbook.py: a producer task that reads the input file and    *)
(* puts chunks of lines on a queue, a consumer task that passes them to    *)
(* the processor, and main that awaits the producer and queue.join().      *)
(* The tasks run on one event loop: a step is what a task does between     *)
(* two of its awaits that suspend it.                                      *)

\* a line that is not JSON
BadText == <<[text |-> "not json"]>>
\* json.dumps(message), a line break after it
JsonLine(message) == <<[json |-> message], NL>>

\* the line a file may hold as its line i (counted from 1)
ApLines(i) ==
    {BadText \o <<NL>>}
      \cup (IF i = 1
            THEN {JsonLine([type |-> "snapshot", ts |-> 1000,
                            data |-> [seq |-> 1, b |-> <<<<"2", "5">>>>,
                                      a |-> <<<<"4", "5">>>>]])}
            ELSE {JsonLine([type |-> "delta", ts |-> 1000 * i, data |-> data]) :
                     data \in {[seq |-> i, b |-> <<<<"3", "7">>>>, a |-> <<>>],
                               [seq |-> i, b |-> <<>>, a |-> <<>>],
                               [seq |-> i, b |-> <<<<"3", "7">>>>]}})

\* line.strip()
Strip(line) ==
    IF line # <<>> /\ line[Len(line)] = NL
    THEN SubSeq(line, 1, Len(line) - 1)
    ELSE line

\* json.loads(text) raises unless text is the dump of a value
JsonLoadsRaises(text) == ~(Len(text) = 1 /\ DOMAIN text[1] = {"json"})
JsonLoads(text) == text[1].json

\* process_line : [proc, res, raised]
ProcessLine(proc, line) ==
    IF JsonLoadsRaises(Strip(line))
    THEN [proc |-> proc, res |-> <<>>, raised |-> TRUE]
    ELSE LET r == ProcessMessage(proc, JsonLoads(Strip(line)))
         IN [proc |-> r.proc,
             res |-> IF ~r.raised /\ r.compressed # <<>>
                     THEN Dumps(r.compressed)
                     ELSE <<>>,
             raised |-> FALSE]

\* the consumer's loop over the lines of a chunk, from the line at index k:
\* [proc, results, passed, raised]
RECURSIVE ProcessLines(_, _, _, _, _)
ProcessLines(proc, chunk, k, res, passed) ==
    IF k > Len(chunk)
    THEN [proc |-> proc, results |-> res, passed |-> passed, raised |-> FALSE]
    ELSE LET r == ProcessLine(proc, chunk[k])
         IN IF r.raised
            THEN [proc |-> r.proc, results |-> res,
                  passed |-> Append(passed, chunk[k]), raised |-> TRUE]
            ELSE ProcessLines(r.proc, chunk, k + 1,
                              IF r.res # <<>> THEN Append(res, r.res) ELSE res,
                              Append(passed, chunk[k]))

\* producer: one iteration of async for
ProdRead ==
    /\ prod_pc = "reading"
    /\ prod_i < CHUNK_LINE_CNT * MaxChunks + 1
    /\ \E line \in ApLines(prod_i + 1) :
        /\ ap_read' = Append(ap_read, line)
        /\ prod_i' = prod_i + 1
        /\ IF (prod_i + 1) % CHUNK_LINE_CNT = 0
           THEN /\ queue' = Append(queue, Some(Append(lines, line)))
                /\ unfinished_tasks' = unfinished_tasks + 1
                /\ lines' = <<>>
           ELSE /\ lines' = Append(lines, line)
                /\ UNCHANGED <<queue, unfinished_tasks>>
    /\ UNCHANGED <<prod_pc, cons_pc, results, ap_out, processed, main_pc, cpVars>>

\* producer: end of file, the end signal is put
ProdEof ==
    /\ prod_pc = "reading"
    /\ queue' = Append(queue, None)
    /\ unfinished_tasks' = unfinished_tasks + 1
    /\ prod_pc' = "done"
    /\ UNCHANGED <<ap_read, prod_i, lines, cons_pc, results, ap_out, processed,
                   main_pc, cpVars>>

\* consumer: queue.get() returns; the end signal ends the loop, a chunk is
\* processed up to the next await
ConsGet ==
    /\ cons_pc = "get"
    /\ queue # <<>>
    /\ queue' = Tail(queue)
    /\ IF Head(queue) = None
       THEN /\ unfinished_tasks' = unfinished_tasks - 1
            /\ cons_pc' = "finished"
            /\ UNCHANGED <<results, processed, cpVars>>
       ELSE \E r \in {ProcessLines(Proc, Head(queue)[1], 1, <<>>, <<>>)} :
               /\ bids' = r.proc.bids
               /\ asks' = r.proc.asks
               /\ first_message' = r.proc.first_message
               /\ processed' = processed \o r.passed
               /\ results' = r.results
               /\ IF r.raised
                  THEN cons_pc' = "failed" /\ UNCHANGED unfinished_tasks
                  ELSE IF r.results # <<>>
                       THEN cons_pc' = "write" /\ UNCHANGED unfinished_tasks
                       ELSE /\ cons_pc' = "get"
                            /\ unfinished_tasks' = unfinished_tasks - 1
               /\ UNCHANGED <<emitted, cp_call, n_messages, replayed>>
    /\ UNCHANGED <<ap_read, prod_pc, prod_i, lines, ap_out, main_pc>>

\* consumer: await f_out.write('\n'.join(results))
ConsWrite ==
    /\ cons_pc = "write"
    /\ ap_out' = ap_out \o Join(results)
    /\ cons_pc' = "write newline"
    /\ UNCHANGED <<ap_read, prod_pc, prod_i, lines, queue, unfinished_tasks, results,
                   processed, main_pc, cpVars>>

\* consumer: await f_out.write('\n'), then queue.task_done()
ConsWriteNewline ==
    /\ cons_pc = "write newline"
    /\ ap_out' = ap_out \o <<NL>>
    /\ unfinished_tasks' = unfinished_tasks - 1
    /\ cons_pc' = "get"
    /\ UNCHANGED <<ap_read, prod_pc, prod_i, lines, queue, results, processed,
                   main_pc, cpVars>>

\* main: await prod returns
MainAwaitProd ==
    /\ main_pc = "await prod"
    /\ prod_pc = "done"
    /\ main_pc' = "join"
    /\ UNCHANGED <<ap_read, prod_pc, prod_i, lines, queue, unfinished_tasks, cons_pc,
                   results, ap_out, processed, cpVars>>

\* main: await queue.join() returns, cons.cancel()
MainJoin ==
    /\ main_pc = "join"
    /\ unfinished_tasks = 0
    /\ main_pc' = "done"
    /\ cons_pc' = IF cons_pc \in {"finished", "failed"} THEN cons_pc ELSE "cancelled"
    /\ UNCHANGED <<ap_read, prod_pc, prod_i, lines, queue, unfinished_tasks, results,
                   ap_out, processed, cpVars>>

PipelineNext ==
    \/ ProdRead /\ UNCHANGED <<hbVars, fpVars, tvVars, dlVars, pfVars>>
    \/ ProdEof /\ UNCHANGED <<hbVars, fpVars, tvVars, dlVars, pfVars>>
    \/ ConsGet /\ UNCHANGED <<hbVars, fpVars, tvVars, dlVars, pfVars>>
    \/ ConsWrite /\ UNCHANGED <<hbVars, fpVars, tvVars, dlVars, pfVars>>
    \/ ConsWriteNewline /\ UNCHANGED <<hbVars, fpVars, tvVars, dlVars, pfVars>>
    \/ MainAwaitProd /\ UNCHANGED <<hbVars, fpVars, tvVars, dlVars, pfVars>>
    \/ MainJoin /\ UNCHANGED <<hbVars, fpVars, tvVars, dlVars, pfVars>>

PipelineSpec == CompressorInit /\ [][PipelineNext]_vars

\* lines = await queue.get() returns: the step ConsGet, as the queue shows it
ConsTakes ==
    /\ cons_pc = "get"
    /\ queue # <<>>
    /\ queue' = Tail(queue)

\* the event loop runs every task that is ready: the producer, the
\* consumer and main each take their step when it stays possible
PipelineLiveSpec ==
    /\ PipelineSpec
    /\ WF_apVars(ProdRead \/ ProdEof)
    /\ WF_queue(ConsTakes)
    /\ WF_apVars(ConsWrite \/ ConsWriteNewline)
    /\ WF_apVars(MainAwaitProd \/ MainJoin)

\* C34: when the consumer sees the end signal, every line the producer has
\* read has been passed to the processor, once and in file order.
C34_EveryLineDelivered ==
    cons_pc = "finished" => processed = ap_read

\* C35: main completes for every input file, and it has made its call of
\* cons.cancel() only when every item put on the queue has been marked done.
C35_MainCompletes ==
    /\ <>(main_pc = "done")
    /\ [](main_pc = "done" => unfinished_tasks = 0 /\ queue = <<>>)

====
